---- MODULE Spec2Model ----
(***************************************************************************)
(* Healthguru (src/app.py): the in-memory chat-session store and the four  *)
(* request handlers that mutate it (new_chat, chat_view, chat_api,         *)
(* delete_chat), with the sidebar listing get_recent_chats.                *)
(*                                                                         *)
(* Texts are sequences of tokens (a word, a blank " " or a quote "\"") so  *)
(* that str.strip() and str.replace('"', '') are computed, not assumed.    *)
(* A Python list is an object: chat_sessions maps a chat id to a reference *)
(* into heap, and a request's local `history` is such a reference too.     *)
(***************************************************************************)
EXTENDS Integers, Sequences, FiniteSets, TLC

\* ------------------------------------------------------------------ bounds
\* Chat ids generate_chat_id may return (random.choices draws any of them).
Ids == {1, 2}
\* The chat ids in use when handlers run concurrently.
ThreadedIds == {1}
\* `chat_id` absent from the request body: data.get('chat_id') is None.
None == 0
\* Largest clock value time.time() returns in the model.
MaxTime == 2
\* A submit is accepted by the model only while the store holds fewer turns.
MaxTurns == 3
\* Number of chat_api requests that can be in flight when the server is threaded.
MaxReqs == 2
\* Largest store the listing is computed on (one more than recent[:10] keeps).
ListMax == 11
\* Timestamps of the records of those stores.
ListTimes == {1, 2}
\* Request bodies' `message` values.
Messages == { <<>>, <<" ">>, <<" ", "a", " ">> }
\* response.text of the title call (line 72), before the clean-up of line 80.
TitleTexts == { <<"\"", "\"">>, <<" ", "\"", "Flu", "\"">> }

\* --------------------------------------------------------------- constants
NEW_HEALTH_QUERY == <<"New", " ", "Health", " ", "Query">>
UNTITLED_CHAT == <<"Untitled", " ", "Chat">>
\* recent[:10]
RecentLimit == 10

\* ------------------------------------------------------------------- texts
IsBlank(c) == c = " "

RECURSIVE LStrip(_)
LStrip(s) == IF s # <<>> /\ IsBlank(Head(s)) THEN LStrip(Tail(s)) ELSE s

RECURSIVE RStrip(_)
RStrip(s) ==
  IF s # <<>> /\ IsBlank(s[Len(s)]) THEN RStrip(SubSeq(s, 1, Len(s) - 1)) ELSE s

\* str.strip()
Strip(s) == RStrip(LStrip(s))

\* str.replace('"', '')
RemoveQuotes(s) == SelectSeq(s, LAMBDA c : c # "\"")

\* ------------------------------------------------------------------- dicts
\* chat_sessions and chat_timestamps: functions (their key order is never read).
Put(d, k, v) == [x \in (DOMAIN d) \cup {k} |-> IF x = k THEN v ELSE d[x]]
\* del d[k] left out.
DelKeeps(d, k) == d
Del(d, k) == [x \in (DOMAIN d) \ {k} |-> d[x]]
Get(d, k, default) == IF k \in DOMAIN d THEN d[k] ELSE default

\* chat_titles: a dict read in insertion order by get_recent_chats, so it is a
\* sequence of entries [id, title] with unique ids.
TKeys(d) == { d[i].id : i \in DOMAIN d }
TGet(d, k, default) ==
  IF k \in TKeys(d) THEN d[CHOOSE i \in DOMAIN d : d[i].id = k].title ELSE default
TPut(d, k, v) ==
  IF k \in TKeys(d)
  THEN [i \in DOMAIN d |-> IF d[i].id = k THEN [id |-> k, title |-> v] ELSE d[i]]
  ELSE Append(d, [id |-> k, title |-> v])
\* del chat_titles[chat_id] left out.
TDelKeeps(d, k) == d
TDel(d, k) == SelectSeq(d, LAMBDA e : e.id # k)

\* ------------------------------------------------------------------- state
VARIABLES
  threaded,         \* the server runs handlers concurrently (one thread per request)
  client,           \* TRUE iff genai.Client() was constructed (else client = None)
  now,              \* the clock read by time.time()
  heap,             \* list objects: reference -> sequence of turns
  chat_sessions,    \* chat id -> reference of its history list
  chat_titles,      \* chat id -> title, in insertion order
  chat_timestamps,  \* chat id -> timestamp
  reqs,             \* chat_api requests in flight: slot -> locals of the handler
  resp              \* the response most recently returned by a handler; NoResp
                    \* once a later request is blocked in a call

vars == << threaded, client, now, heap, chat_sessions, chat_titles,
           chat_timestamps, reqs, resp >>

store == << heap, chat_sessions, chat_titles, chat_timestamps >>

Slots == 1 .. MaxReqs
Refs == 1 .. (Cardinality(Ids) + MaxReqs + 1)

UserTurn(text) == [role |-> "user", text |-> text]
ModelTurn == [role |-> "model", text |-> <<"r">>]
\* response.candidates[0].content of a candidate that carries no content: None,
\* which has no .role and no .parts.
NoneTurn == [role |-> "None", text |-> <<>>]

\* The locals of a chat_api handler: where it is blocked (pc), the request's
\* chat_id (arg), chat_id, history and response. k and t0 are history variables:
\* the number of turns and the timestamp of the record when the handler resolved
\* it (line 163).
IdleReq == [pc |-> "idle", arg |-> None, chat_id |-> None, history |-> 0,
            response |-> "none", k |-> 0, t0 |-> 0]

\* The chat ids requests name and generate_chat_id returns.
ChatIds == IF threaded THEN ThreadedIds ELSE Ids

AllIdle == \A s \in Slots : reqs[s].pc = "idle"

\* A handler may start: always when threaded, else only when none is running.
MayStart == threaded \/ AllIdle

\* A response: the handler, the HTTP status, the JSON fields 'error', 'chat_id' and
\* 'response', the redirect (its route and the chat id in its URL) and the
\* recent_chats a page is rendered with. For chat_view and delete_chat, chat_id is
\* the id in the request's URL.
Response(op, code, error, chat_id, response, redirect, target) ==
  [op |-> op, code |-> code, error |-> error, chat_id |-> chat_id,
   response |-> response, redirect |-> redirect, target |-> target, recent |-> <<>>]

NoResp == Response("none", 0, "", None, <<>>, "", None)

\* A fresh list object gets the least reference not in use.
Alloc(h) == CHOOSE r \in Refs \ DOMAIN h : \A q \in Refs \ DOMAIN h : r <= q

RECURSIVE SumLen(_, _)
SumLen(h, rs) ==
  IF rs = {} THEN 0
  ELSE LET r == CHOOSE x \in rs : TRUE IN Len(h[r]) + SumLen(h, rs \ {r})

\* The number of turns held by all the lists.
TotalTurns == SumLen(heap, DOMAIN heap)

\* Reference counting: a list no dict entry and no running handler refers to is gone.
Collect(h, sessions, rq) ==
  LET live == { sessions[c] : c \in DOMAIN sessions }
              \cup { rq[s].history : s \in { t \in Slots : rq[t].pc # "idle" } }
  IN  [r \in (DOMAIN h) \cap live |-> h[r]]

\* ------------------------------------------------------------ the listing
\* list.sort(key=timestamp, reverse=True) is stable: an entry goes after every
\* entry whose timestamp is greater than or equal to its own.
\* The sort without reverse=True.
RECURSIVE InsertAsc(_, _)
InsertAsc(sorted, e) ==
  IF sorted = <<>> THEN << e >>
  ELSE IF Head(sorted).timestamp <= e.timestamp
       THEN << Head(sorted) >> \o InsertAsc(Tail(sorted), e)
       ELSE << e >> \o sorted

RECURSIVE InsertDesc(_, _)
InsertDesc(sorted, e) ==
  IF sorted = <<>> THEN << e >>
  ELSE IF Head(sorted).timestamp >= e.timestamp
       THEN << Head(sorted) >> \o InsertDesc(Tail(sorted), e)
       ELSE << e >> \o sorted

RECURSIVE SortDesc(_)
SortDesc(s) ==
  IF s = <<>> THEN <<>>
  ELSE InsertDesc(SortDesc(SubSeq(s, 1, Len(s) - 1)), s[Len(s)])

Take(s, n) == SubSeq(s, 1, IF Len(s) < n THEN Len(s) ELSE n)

get_recent_chats(titles, timestamps) ==
  LET recent == [i \in DOMAIN titles |->
                   [id |-> titles[i].id, title |-> titles[i].title,
                    timestamp |-> Get(timestamps, titles[i].id, 0)]]
  IN  Take(SortDesc(recent), RecentLimit)

\* -------------------------------------------------------------------- Init
Init ==
  /\ threaded = FALSE
  /\ client \in BOOLEAN
  /\ now = 1
  /\ heap = << >>
  /\ chat_sessions = << >>
  /\ chat_titles = << >>
  /\ chat_timestamps = << >>
  /\ reqs = [s \in Slots |-> IdleReq]
  /\ resp = NoResp

\* ----------------------------------------------------------------- actions
\* time passes
Tick ==
  /\ now < MaxTime
  /\ now' = now + 1
  /\ UNCHANGED << threaded, client, heap, chat_sessions, chat_titles,
                  chat_timestamps, reqs, resp >>

\* GET /new_chat
NewChat ==
  /\ MayStart
  /\ \E new_id \in ChatIds :
       LET ref == Alloc(heap)
           sessions1 == Put(chat_sessions, new_id, ref)
       IN  /\ chat_sessions' = sessions1
           /\ heap' = Collect(Put(heap, ref, <<>>), sessions1, reqs)
           /\ chat_titles' = TPut(chat_titles, new_id, NEW_HEALTH_QUERY)
           /\ chat_timestamps' = Put(chat_timestamps, new_id, now)
           /\ resp' = Response("new_chat", 302, "", None, <<>>, "chat_view", new_id)
  /\ UNCHANGED << threaded, client, now, reqs >>

\* GET /chat/<chat_id>
ChatView ==
  /\ MayStart
  /\ \E chat_id \in ChatIds :
       resp' = IF chat_id \notin DOMAIN chat_sessions
               THEN Response("chat_view", 302, "", chat_id, <<>>, "new_chat", None)
               ELSE IF \E i \in DOMAIN heap[chat_sessions[chat_id]] :
                         heap[chat_sessions[chat_id]][i] = NoneTurn
                    THEN Response("chat_view", 500, "Internal Server Error", chat_id,
                                  <<>>, "", None)
                    ELSE [Response("chat_view", 200, "", chat_id, <<>>, "", None)
                            EXCEPT !.recent = get_recent_chats(chat_titles,
                                                               chat_timestamps)]
  /\ UNCHANGED << threaded, client, now, heap, chat_sessions, chat_titles,
                  chat_timestamps, reqs >>

\* POST /delete_chat/<chat_id>
DeleteChat ==
  /\ MayStart
  /\ \E chat_id \in ChatIds :
       IF chat_id \in DOMAIN chat_sessions
       THEN LET sessions1 == Del(chat_sessions, chat_id)
                titles1 == TDel(chat_titles, chat_id)
                timestamps1 == Del(chat_timestamps, chat_id)
                remaining_chats == get_recent_chats(titles1, timestamps1)
            IN  /\ chat_sessions' = sessions1
                /\ chat_titles' = titles1
                /\ chat_timestamps' = timestamps1
                /\ heap' = Collect(heap, sessions1, reqs)
                /\ resp' = IF remaining_chats # <<>>
                           THEN Response("delete_chat", 200, "", chat_id, <<>>,
                                         "chat_view", remaining_chats[1].id)
                           ELSE Response("delete_chat", 200, "", chat_id, <<>>,
                                         "new_chat", None)
       ELSE /\ resp' = Response("delete_chat", 404, "Chat not found", chat_id, <<>>,
                                 "", None)
            /\ UNCHANGED store
  /\ UNCHANGED << threaded, client, now, reqs >>

\* ------------------------------------------------ title derivation (59-84)
\* What the title call does: it raises, or it returns response.text.
TitleOutcomes ==
  { [raises |-> TRUE, text |-> <<>>] }
  \cup { [raises |-> FALSE, text |-> t] : t \in TitleTexts }

\* Lines 80-84 without the fallback of lines 81 and 84.
generate_title_no_fallback(outcome) ==
  IF outcome.raises THEN <<>> ELSE RemoveQuotes(Strip(outcome.text))

\* Lines 80-84: the cleaned text, or the fallback when it is empty or the call raised.
generate_title_from_message(outcome) ==
  IF outcome.raises
  THEN NEW_HEALTH_QUERY
  ELSE LET title == RemoveQuotes(Strip(outcome.text))
       IN  IF Len(title) > 0 THEN title ELSE NEW_HEALTH_QUERY

\* ------------------------------------------------------- chat_api (146-200)
\* What client.models.generate_content does at line 173:
\*   "raise"          the call raises (network, quota)
\*   "no_candidates"  a response with no candidates: candidates[0] raises at line
\*                    182, before the append
\*   "no_content"     a response whose candidate has content None (a blocked or
\*                    empty reply): None is appended, and .role raises at line 99
\*   "bad_text"       a response with a content whose .text raises (a part that is
\*                    not text), at line 188
\*   "ok"             a response with a content and a text
Completions == { "raise", "no_candidates", "no_content", "bad_text", "ok" }

\* response.candidates[0].content
Content(outcome) == IF outcome = "no_content" THEN NoneTurn ELSE ModelTurn

\* response.text: None when the candidate has no content
ResponseText(outcome) == IF outcome = "no_content" THEN <<>> ELSE ModelTurn.text

FreeSlot == CHOOSE s \in Slots : reqs[s].pc = "idle" /\ \A t \in 1 .. (s - 1) : reqs[t].pc # "idle"

ApiResp(code, error, chat_id, response) ==
  Response("chat_api", code, error, chat_id, response, "", None)

\* Lines 196-200 without the history.pop() of line 199.
ChatApiExceptKeeps(s, h) ==
  LET reqs1 == [reqs EXCEPT ![s] = IdleReq]
  IN  /\ reqs' = reqs1
      /\ heap' = Collect(h, chat_sessions', reqs1)
      /\ resp' = ApiResp(500,
                         "Failed to communicate with the AI model. Please try again.",
                         None, <<>>)

\* Lines 196-200: the except branch. history.pop() removes the LAST element of the
\* list, whatever it is; on an empty list it raises and Flask answers 500.
ChatApiExcept(s, h) ==
  LET ref == reqs[s].history
      reqs1 == [reqs EXCEPT ![s] = IdleReq]
  IN  /\ reqs' = reqs1
      /\ IF Len(h[ref]) > 0
         THEN /\ heap' = Collect([h EXCEPT ![ref] = SubSeq(@, 1, Len(@) - 1)],
                                 chat_sessions', reqs1)
              /\ resp' = ApiResp(500,
                                 "Failed to communicate with the AI model. Please try again.",
                                 None, <<>>)
         ELSE /\ heap' = Collect(h, chat_sessions', reqs1)
              /\ resp' = ApiResp(500, "Internal Server Error", None, <<>>)

\* Lines 187-194, entered after save_chat_history returned.
ChatApiReturn(s, h, response) ==
  IF response = "bad_text"
  THEN ChatApiExcept(s, h)
  ELSE LET reqs1 == [reqs EXCEPT ![s] = IdleReq]
       IN  /\ reqs' = reqs1
           /\ heap' = Collect(h, chat_sessions', reqs1)
           /\ resp' = ApiResp(200, "", reqs[s].chat_id, ResponseText(response))

\* Resolve with line 159 run for an existing chat too.
ResolveResetsTitle(arg, new_id) ==
  IF arg \notin DOMAIN chat_sessions
  THEN LET ref == Alloc(heap)
       IN  [created |-> TRUE, chat_id |-> new_id, history |-> ref,
            heap |-> Put(heap, ref, <<>>),
            sessions |-> Put(chat_sessions, new_id, ref),
            titles |-> TPut(chat_titles, new_id, NEW_HEALTH_QUERY),
            timestamps |-> Put(chat_timestamps, new_id, now)]
  ELSE [created |-> FALSE, chat_id |-> arg, history |-> chat_sessions[arg],
        heap |-> heap, sessions |-> chat_sessions,
        titles |-> TPut(chat_titles, arg, NEW_HEALTH_QUERY),
        timestamps |-> chat_timestamps]

\* Resolve with line 160 run for an existing chat too.
ResolveStamping(arg, new_id) ==
  IF arg \notin DOMAIN chat_sessions
  THEN LET ref == Alloc(heap)
       IN  [created |-> TRUE, chat_id |-> new_id, history |-> ref,
            heap |-> Put(heap, ref, <<>>),
            sessions |-> Put(chat_sessions, new_id, ref),
            titles |-> TPut(chat_titles, new_id, NEW_HEALTH_QUERY),
            timestamps |-> Put(chat_timestamps, new_id, now)]
  ELSE [created |-> FALSE, chat_id |-> arg, history |-> chat_sessions[arg],
        heap |-> heap, sessions |-> chat_sessions, titles |-> chat_titles,
        timestamps |-> Put(chat_timestamps, arg, now)]

\* Lines 155-163: the session a submit works on. An id that is not a key of
\* chat_sessions (None included) is replaced by a generated one, new_id, with an
\* empty list, the placeholder title and the current time.
Resolve(arg, new_id) ==
  IF arg \notin DOMAIN chat_sessions
  THEN LET ref == Alloc(heap)
       IN  [created |-> TRUE, chat_id |-> new_id, history |-> ref,
            heap |-> Put(heap, ref, <<>>),
            sessions |-> Put(chat_sessions, new_id, ref),
            titles |-> TPut(chat_titles, new_id, NEW_HEALTH_QUERY),
            timestamps |-> Put(chat_timestamps, new_id, now)]
  ELSE [created |-> FALSE, chat_id |-> arg, history |-> chat_sessions[arg],
        heap |-> heap, sessions |-> chat_sessions, titles |-> chat_titles,
        timestamps |-> chat_timestamps]

\* Line 99 without its test of the current title.
NeedsTitleAlways(title, history) ==
  /\ Len(history) > 1
  /\ history[Len(history)].role = "model"

\* Line 99: does save_chat_history derive a title?
NeedsTitle(title, history) ==
  /\ title = NEW_HEALTH_QUERY
  /\ Len(history) > 1
  /\ history[Len(history)].role = "model"

\* Line 99 (history[-1].role) and line 101 (history[0].parts) raise AttributeError
\* when the element they read is None.
SaveRaises(title, history) ==
  /\ title = NEW_HEALTH_QUERY
  /\ Len(history) > 1
  /\ \/ history[Len(history)] = NoneTurn
     \/ history[Len(history)].role = "model" /\ history[1] = NoneTurn

\* The validation of line 152 placed after the session resolution of 155-160.
RejectAfterResolve ==
  /\ resp' = ApiResp(400, "Message cannot be empty", None, <<>>)
  /\ \E arg \in ChatIds \cup {None}, new_id \in ChatIds :
       LET ref == Alloc(heap)
           created == arg \notin DOMAIN chat_sessions
       IN  /\ chat_sessions' = IF created THEN Put(chat_sessions, new_id, ref)
                               ELSE chat_sessions
           /\ heap' = IF created
                      THEN Collect(Put(heap, ref, <<>>), chat_sessions', reqs)
                      ELSE heap
           /\ chat_titles' = IF created THEN TPut(chat_titles, new_id, NEW_HEALTH_QUERY)
                             ELSE chat_titles
           /\ chat_timestamps' = IF created THEN Put(chat_timestamps, new_id, now)
                                 ELSE chat_timestamps
  /\ UNCHANGED reqs

\* Lines 152-153: an empty message is answered 400 and nothing else happens.
Reject ==
  /\ resp' = ApiResp(400, "Message cannot be empty", None, <<>>)
  /\ UNCHANGED << store, reqs >>

\* Line 169 never taken.
ClientCheckSkipped == FALSE

\* Line 169: `if not client`.
ClientMissing == ~client

\* Lines 148-173: validation, session resolution, the user turn, the client check;
\* the handler then blocks in the completion call.
ChatApiBegin ==
  /\ MayStart
  /\ \E s \in Slots : reqs[s].pc = "idle"
  /\ \E message \in Messages, arg \in ChatIds \cup {None} :
       LET user_message == Strip(message)
       IN  IF user_message = <<>>
           THEN Reject
           ELSE \E new_id \in ChatIds :
                  LET r == Resolve(arg, new_id)
                      ref == r.history
                      heap2 == [r.heap EXCEPT ![ref] = Append(@, UserTurn(user_message))]
                      reqs1 == IF ~ClientMissing
                               THEN [reqs EXCEPT ![FreeSlot] =
                                       [pc |-> "completion", arg |-> arg,
                                        chat_id |-> r.chat_id,
                                        history |-> ref, response |-> "none",
                                        k |-> Len(r.heap[ref]),
                                        t0 |-> r.timestamps[r.chat_id]]]
                               ELSE reqs
                  IN  /\ r.created \/ new_id = arg   \* new_id is read only when created
                      /\ TotalTurns < MaxTurns
                      /\ chat_sessions' = r.sessions
                      /\ chat_titles' = r.titles
                      /\ chat_timestamps' = r.timestamps
                      /\ reqs' = reqs1
                      /\ heap' = Collect(heap2, r.sessions, reqs1)
                      /\ resp' = IF ~ClientMissing THEN NoResp
                                 ELSE ApiResp(500, "AI service not initialized.",
                                              None, <<>>)
  /\ UNCHANGED << threaded, client, now >>

\* Lines 173-185 and, when no title is derived, 105 and 187-200: the completion
\* call returns or raises. save_chat_history (87-105) stores the list, stamps the
\* chat and either keeps the title or blocks in the title call.
ChatApiCompletion ==
  /\ \E s \in Slots, outcome \in Completions :
       /\ reqs[s].pc = "completion"
       /\ LET chat_id == reqs[s].chat_id
              ref == reqs[s].history
          IN  IF outcome \in { "raise", "no_candidates" }
              THEN /\ UNCHANGED << chat_sessions, chat_titles, chat_timestamps >>
                   /\ ChatApiExcept(s, heap)
              ELSE LET heap1 == [heap EXCEPT ![ref] = Append(@, Content(outcome))]
                       history == heap1[ref]
                       title == TGet(chat_titles, chat_id, NEW_HEALTH_QUERY)
                   IN  /\ chat_sessions' = Put(chat_sessions, chat_id, ref)
                       /\ chat_timestamps' = Put(chat_timestamps, chat_id, now)
                       /\ IF SaveRaises(title, history)
                          THEN /\ UNCHANGED chat_titles
                               /\ ChatApiExcept(s, heap1)
                          ELSE IF NeedsTitle(title, history)
                          THEN IF ~client
                               THEN /\ chat_titles' = TPut(chat_titles, chat_id, UNTITLED_CHAT)
                                    /\ ChatApiReturn(s, heap1, outcome)
                               ELSE /\ reqs' = [reqs EXCEPT ![s].pc = "title",
                                                            ![s].response = outcome]
                                    /\ heap' = heap1
                                    /\ UNCHANGED << chat_titles, resp >>
                          ELSE /\ chat_titles' = TPut(chat_titles, chat_id, title)
                               /\ ChatApiReturn(s, heap1, outcome)
  /\ UNCHANGED << threaded, client, now >>

\* Lines 72-84, 103 and 187-200: the title call returns or raises, the title is
\* stored, and the handler returns.
ChatApiTitle ==
  /\ \E s \in Slots, outcome \in TitleOutcomes :
       /\ reqs[s].pc = "title"
       /\ chat_titles' = TPut(chat_titles, reqs[s].chat_id,
                              generate_title_from_message(outcome))
       /\ UNCHANGED << chat_sessions, chat_timestamps >>
       /\ ChatApiReturn(s, heap, reqs[s].response)
  /\ UNCHANGED << threaded, client, now >>

Next ==
  \/ Tick
  \/ NewChat
  \/ ChatView
  \/ DeleteChat
  \/ ChatApiBegin
  \/ ChatApiCompletion
  \/ ChatApiTitle

\* One request at a time (the contract of the session store).
Spec == Init /\ [][Next]_vars

\* The threaded server: handlers interleave at their blocking calls.
InitThreaded ==
  /\ threaded = TRUE
  /\ client \in BOOLEAN
  /\ now = 1
  /\ heap = << >>
  /\ chat_sessions = << >>
  /\ chat_titles = << >>
  /\ chat_timestamps = << >>
  /\ reqs = [s \in Slots |-> IdleReq]
  /\ resp = NoResp

SpecThreaded == InitThreaded /\ [][Next]_vars

\* The listing on stores of up to ListMax chats: n chats created by new_chat in
\* ascending or descending order of id, then stamped by successful submits.
InitList ==
  /\ threaded = FALSE
  /\ client = TRUE
  /\ now = 2
  /\ chat_timestamps \in UNION { [1 .. n -> ListTimes] : n \in 0 .. ListMax }
  /\ chat_sessions = [i \in DOMAIN chat_timestamps |-> i]
  /\ heap = [i \in DOMAIN chat_timestamps |-> <<>>]
  /\ \E n \in 0 .. ListMax :
       /\ DOMAIN chat_timestamps = 1 .. n
       /\ chat_titles \in
            { [i \in 1 .. n |-> [id |-> i, title |-> NEW_HEALTH_QUERY]],
              [i \in 1 .. n |-> [id |-> n + 1 - i, title |-> NEW_HEALTH_QUERY]] }
  /\ reqs = [s \in Slots |-> IdleReq]
  /\ resp = NoResp

NextList == ChatView \/ DeleteChat

SpecList == InitList /\ [][NextList]_vars

\* ================================================================== claims
\* The list of a stored chat.
History(id) == heap[chat_sessions[id]]
HistoryAfter(id) == heap'[chat_sessions'[id]]

\* A chat_api request in slot s returns in this step.
Returns(s) == reqs[s].pc # "idle" /\ reqs'[s].pc = "idle"

\* C1: a submit on a record holding K turns whose completion step fails (the call
\* raises, or the reply is malformed and processing it raises) returns an error
\* and leaves the record with exactly K turns.
C1_RollbackRestoresK ==
  [][ \A s \in Slots :
        (Returns(s) /\ resp'.code # 200)
        => /\ resp'.op = "chat_api" /\ resp'.code = 500
           /\ reqs[s].chat_id \in DOMAIN chat_sessions'
           /\ Len(HistoryAfter(reqs[s].chat_id)) = reqs[s].k ]_vars

RECURSIVE Alternates(_, _)
Alternates(history, role) ==
  \/ history = <<>>
  \/ /\ Head(history).role = role
     /\ Alternates(Tail(history), IF role = "user" THEN "model" ELSE "user")

\* C2: whenever no submit is in flight, every record's messages are empty or
\* alternate user, model, user, model ..., starting with user and ending with model.
C2_Alternation ==
  AllIdle =>
    \A id \in DOMAIN chat_sessions :
      /\ Alternates(History(id), "user")
      /\ Len(History(id)) % 2 = 0

Stored == DOMAIN chat_sessions
Title(id) == TGet(chat_titles, id, NEW_HEALTH_QUERY)
TitleAfter(id) == TGet(chat_titles', id, NEW_HEALTH_QUERY)

\* The record of id is the same record after the step: the id stays bound to the
\* same list (a delete unbinds it, a creation binds it to a new list).
SameRecord(id) ==
  /\ id \in DOMAIN chat_sessions /\ id \in DOMAIN chat_sessions'
  /\ chat_sessions'[id] = chat_sessions[id]
  /\ id \in DOMAIN chat_timestamps /\ id \in DOMAIN chat_timestamps'

\* C3 as claimed, for the first operation it lists: a successful submit (answered
\* 200 with the model's text) does not change the timestamp stored for its chat id.
C3_TimestampImmutable ==
  [][ \A id \in Ids :
        (SameRecord(id) /\ resp'.op = "chat_api" /\ resp'.code = 200
           /\ resp'.chat_id = id /\ resp'.response = ModelTurn.text
           /\ Alternates(HistoryAfter(id), "user"))
        => chat_timestamps'[id] = chat_timestamps[id] ]_vars

\* C3 amended: the timestamp of a record changes only where chat_api, back from the
\* completion call with a reply it appended, runs save_chat_history for that id,
\* and it becomes the current time; a submit that is rolled back to K turns, a
\* rejected submit, chat_view, new_chat and delete_chat of another id leave it.
C3_TimestampSetOnlyBySave ==
  [][ \A id \in Ids :
        (SameRecord(id) /\ chat_timestamps'[id] # chat_timestamps[id])
        => /\ chat_timestamps'[id] = now
           /\ \E s \in Slots :
                /\ reqs[s].pc = "completion" /\ reqs[s].chat_id = id
                /\ Len(HistoryAfter(id)) > reqs[s].k ]_vars

\* A handler has run save_chat_history, and the record's timestamp is no longer the
\* one the record had when the handler resolved it.
C3_Witness ==
  \E s \in Slots :
    /\ reqs[s].pc = "title"
    /\ chat_timestamps[reqs[s].chat_id] # reqs[s].t0

\* C4: once the title of a record differs from the placeholder, no request changes
\* it for as long as the record exists.
C4_TitleStable ==
  [][ \A id \in Ids :
        (SameRecord(id) /\ Title(id) # NEW_HEALTH_QUERY)
        => TitleAfter(id) = Title(id) ]_vars

\* A submit has just succeeded on a record without deriving a title (a reply with
\* no text is answered 200 only through the else branch of line 104), and the
\* record has its derived title and a second pair of turns.
C4_Witness ==
  /\ AllIdle
  /\ resp.op = "chat_api" /\ resp.code = 200 /\ resp.response = <<>>
  /\ resp.chat_id \in Stored
  /\ Len(History(resp.chat_id)) = 4
  /\ Title(resp.chat_id) = <<"Flu">>

\* C5: after a successful submit on a record (user and model turn committed) the
\* title is a derived, non-empty value different from the placeholder, whether or
\* not the title call succeeded.
C5_TitleDerivedOnSuccess ==
  (AllIdle /\ resp.op = "chat_api" /\ resp.code = 200 /\ resp.chat_id \in Stored)
  => /\ Title(resp.chat_id) # NEW_HEALTH_QUERY
     /\ Title(resp.chat_id) # <<>>

\* C6: an identifier produced when a session is created is not a key of the store,
\* so no step binds the id of a stored chat that holds turns to a new, empty list.
C6_FreshIdentifier ==
  [][ \A id \in Ids :
        (id \in DOMAIN chat_sessions /\ id \in DOMAIN chat_sessions'
           /\ History(id) # <<>>)
        => chat_sessions'[id] = chat_sessions[id] ]_vars

\* Every stored user turn has a text that is not empty and has no blank at either end.
UserTextsTrimmed(h) ==
  \A r \in DOMAIN h : \A i \in DOMAIN h[r] :
    h[r][i].role = "user"
    => /\ h[r][i].text # <<>>
       /\ ~IsBlank(Head(h[r][i].text))
       /\ ~IsBlank(h[r][i].text[Len(h[r][i].text)])

\* C7: a submit whose message is empty after trimming is answered with an error and
\* changes nothing: no record, no turn, no title, no timestamp; so no stored user
\* turn ever has an empty or untrimmed text.
C7_ValidationNoMutation ==
  [][ /\ (resp'.op = "chat_api" /\ resp'.code = 400)
         => (store' = store /\ reqs' = reqs)
      /\ UserTextsTrimmed(heap') ]_vars

\* An empty message was rejected while the store holds a record with turns.
C7_Witness ==
  /\ resp.op = "chat_api" /\ resp.code = 400
  /\ \E id \in Stored : Len(History(id)) >= 2

\* C8: resolving an existing chat id changes nothing: chat_view of a stored id
\* leaves every record and the set of records as they are, and a chat_api request
\* whose chat_id is stored works on that record, creates no record and never sets
\* the record's title back to the placeholder.
C8_ResolveExistingReadOnly ==
  [][ /\ (resp'.op = "chat_view" /\ resp'.chat_id \in Stored) => store' = store
      /\ \A s \in Slots :
           LET rq == IF reqs[s].pc = "idle" THEN reqs'[s] ELSE reqs[s]
           IN  (rq.pc # "idle" /\ rq.arg \in Stored)
               => /\ rq.chat_id = rq.arg
                  /\ DOMAIN chat_sessions' = Stored
                  /\ TKeys(chat_titles') = TKeys(chat_titles)
                  /\ chat_sessions'[rq.arg] = chat_sessions[rq.arg]
                  /\ (TitleAfter(rq.arg) = NEW_HEALTH_QUERY
                        => Title(rq.arg) = NEW_HEALTH_QUERY)
                  /\ (reqs[s].pc = "idle"
                        => /\ TitleAfter(rq.arg) = Title(rq.arg)
                           /\ chat_timestamps' = chat_timestamps) ]_vars

\* A chat_api request that named a stored chat with a derived title and two turns
\* is blocked in its completion call.
C8_Witness ==
  \E s \in Slots :
    /\ reqs[s].pc = "completion"
    /\ reqs[s].arg = reqs[s].chat_id
    /\ reqs[s].k = 2
    /\ Title(reqs[s].chat_id) = <<"Flu">>

Listing == get_recent_chats(chat_titles, chat_timestamps)
ListingIds == { Listing[i].id : i \in DOMAIN Listing }
ListingIdsAfter ==
  LET l == get_recent_chats(chat_titles', chat_timestamps')
  IN  { l[i].id : i \in DOMAIN l }

\* C9: after a successful delete_chat the deleted id is absent from every later
\* listing (stated here for the listing computed after the next request).
C9_DeletedStaysAbsent ==
  [][ (resp.op = "delete_chat" /\ resp.code = 200)
      => resp.chat_id \notin ListingIdsAfter ]_vars

\* The record of id is untouched by the step.
RecordUnchanged(id) ==
  /\ (id \in DOMAIN chat_sessions') = (id \in Stored)
  /\ (id \in TKeys(chat_titles')) = (id \in TKeys(chat_titles))
  /\ (id \in DOMAIN chat_timestamps') = (id \in DOMAIN chat_timestamps)
  /\ id \in Stored => /\ HistoryAfter(id) = History(id)
                       /\ chat_sessions'[id] = chat_sessions[id]
  /\ TitleAfter(id) = Title(id)
  /\ Get(chat_timestamps', id, 0) = Get(chat_timestamps, id, 0)

\* The step creates a session with identifier id.
Creates(id) ==
  \/ resp'.op = "new_chat" /\ resp'.target = id
  \/ \E s \in Slots : /\ reqs[s].pc = "idle" /\ reqs'[s].pc = "completion"
                      /\ reqs'[s].chat_id = id /\ reqs'[s].arg \notin Stored
  \/ ~client /\ resp'.op = "chat_api" /\ resp'.code = 500

\* What delete_chat does keep of C9: delete_chat of a stored id removes it from the
\* three maps and from the listing and leaves every other record unchanged;
\* delete_chat of an id that is not stored answers not-found and leaves the store
\* unchanged; and an id that is not listed enters the listing only when a session
\* creation generates it.
C9_Deletion ==
  [][ /\ (resp'.op = "delete_chat" /\ resp'.code = 200)
         => /\ resp' # resp => resp'.chat_id \in Stored
            /\ resp'.chat_id \notin DOMAIN chat_sessions'
            /\ resp'.chat_id \notin TKeys(chat_titles')
            /\ resp'.chat_id \notin DOMAIN chat_timestamps'
            /\ resp'.chat_id \notin ListingIdsAfter
            /\ \A o \in Ids \ {resp'.chat_id} : RecordUnchanged(o)
      /\ (resp'.op = "delete_chat" /\ resp'.code = 404)
         => /\ resp'.chat_id \notin Stored
            /\ store' = store
      /\ \A id \in Ids :
           (id \notin ListingIds /\ id \in ListingIdsAfter) => Creates(id) ]_vars

\* A chat was deleted and another chat, with turns, is still stored.
C9_Witness ==
  /\ resp.op = "delete_chat" /\ resp.code = 200
  /\ \E o \in Stored : Len(History(o)) >= 2

Min(a, b) == IF a < b THEN a ELSE b

\* C10: the listing a page is rendered with has at most 10 entries, all of them
\* records of the store, in non-increasing order of timestamp (strictly
\* decreasing when the timestamps are distinct), and no record left out has a
\* greater timestamp than a listed one.
C10_RecentChats ==
  (resp.op = "chat_view" /\ resp.code = 200)
  => LET recent == resp.recent
         listed == { recent[i].id : i \in DOMAIN recent }
     IN  /\ Len(recent) <= 10
         /\ Len(recent) = Min(10, Cardinality(TKeys(chat_titles)))
         /\ Cardinality(listed) = Len(recent)
         /\ \A i \in DOMAIN recent :
              /\ recent[i].id \in TKeys(chat_titles)
              /\ recent[i].title = Title(recent[i].id)
              /\ recent[i].timestamp = Get(chat_timestamps, recent[i].id, 0)
         /\ \A i, j \in DOMAIN recent :
              i < j => /\ recent[i].timestamp >= recent[j].timestamp
                       /\ (\A a, b \in DOMAIN chat_timestamps :
                              a # b => chat_timestamps[a] # chat_timestamps[b])
                           => recent[i].timestamp > recent[j].timestamp
         /\ \A id \in TKeys(chat_titles) \ listed : \A i \in DOMAIN recent :
              Get(chat_timestamps, id, 0) <= recent[i].timestamp

\* A page was rendered from a store of more than 10 chats: 10 are listed, with
\* both timestamps among them, and the chat left out is as old as the oldest listed.
C10_Witness ==
  /\ resp.op = "chat_view" /\ resp.code = 200
  /\ Cardinality(TKeys(chat_titles)) > 10
  /\ Len(resp.recent) = 10
  /\ resp.recent[1].timestamp > resp.recent[10].timestamp
  /\ \E id \in TKeys(chat_titles) :
       /\ \A i \in DOMAIN resp.recent : resp.recent[i].id # id
       /\ chat_timestamps[id] = resp.recent[10].timestamp

\* The same dict filled in the opposite order.
Reverse(d) == [i \in 1 .. Len(d) |-> d[Len(d) + 1 - i]]

\* C11: the listing a page is rendered with is a function of the set of stored
\* records alone: records sharing a timestamp are listed in the order of their
\* identifiers, so the same records inserted in the opposite order give the same
\* listing.
C11_ListingDeterminism ==
  (resp.op = "chat_view" /\ resp.code = 200)
  => /\ resp.recent = get_recent_chats(Reverse(chat_titles), chat_timestamps)
     /\ \/ \A i, j \in DOMAIN resp.recent :
              (i < j /\ resp.recent[i].timestamp = resp.recent[j].timestamp)
              => resp.recent[i].id < resp.recent[j].id
        \/ \A i, j \in DOMAIN resp.recent :
              (i < j /\ resp.recent[i].timestamp = resp.recent[j].timestamp)
              => resp.recent[i].id > resp.recent[j].id

\* C12: when a submit fails because the completion call failed, the error result
\* carries the chat id of the session the submit worked on (a session the submit
\* created included).
C12_ErrorCarriesChatId ==
  [][ \A s \in Slots :
        (Returns(s) /\ resp'.op = "chat_api" /\ resp'.code = 500)
        => resp'.chat_id = reqs[s].chat_id ]_vars

\* C13: when the client could not be constructed, new_chat, chat_view (with the
\* listing) and delete_chat are still served and never answer a server error, and
\* every chat_api submit with a non-empty message (one that appends a user turn) is
\* rejected, without any call of the completion service, with an error that is
\* neither the validation error nor the completion-failure error.
C13_DegradedMode ==
  [][ ~client =>
        /\ ENABLED NewChat /\ ENABLED ChatView /\ ENABLED DeleteChat
        /\ AllIdle'
        /\ resp'.op \in { "new_chat", "chat_view", "delete_chat" }
           => resp'.code \in { 200, 302, 404 }
        /\ resp'.op = "chat_api"
           => \/ resp'.code = 400 /\ resp'.error = "Message cannot be empty"
                 /\ store' = store
              \/ resp'.code = 500 /\ resp'.error = "AI service not initialized."
        /\ SumLen(heap', DOMAIN heap') > TotalTurns
           => /\ resp'.op = "chat_api" /\ resp'.code = 500
              /\ resp'.error = "AI service not initialized."
              /\ resp'.error # "Message cannot be empty"
              /\ resp'.error
                   # "Failed to communicate with the AI model. Please try again." ]_vars

\* Without a client, a submit was rejected on a chat that a page then listed.
C13_Witness ==
  /\ ~client
  /\ resp.op = "chat_view" /\ resp.code = 200
  /\ Len(resp.recent) > 0
  /\ \E id \in Stored : Len(History(id)) > 0

\* C14: a failure of the title call never fails the submit: when the completion
\* call returned a well-formed reply and the handler comes back from the title
\* call, whatever that call did, chat_api answers 200 with the reply and the chat
\* id, the user turn and the model turn are the last two turns of the record, and
\* the title is the derived text or, when the call raised or gave no text, the
\* default label "New Health Query".
C14_TitleFailureDoesNotFailSubmit ==
  [][ \A s \in Slots :
        (reqs[s].pc = "title" /\ Returns(s) /\ reqs[s].response = "ok")
        => LET id == reqs[s].chat_id
           IN  /\ resp'.op = "chat_api" /\ resp'.code = 200 /\ resp'.error = ""
               /\ resp'.chat_id = id
               /\ resp'.response = ModelTurn.text
               /\ id \in DOMAIN chat_sessions'
               /\ Len(HistoryAfter(id)) = reqs[s].k + 2
               /\ HistoryAfter(id)[reqs[s].k + 1].role = "user"
               /\ HistoryAfter(id)[reqs[s].k + 2] = ModelTurn
               /\ TitleAfter(id) \in { <<"Flu">>, <<"New", " ", "Health", " ", "Query">> }
    ]_vars

\* A first submit was answered 200 with the reply, its two turns are stored, and
\* the title is the default label: the title call raised or gave no text.
C14_Witness ==
  /\ AllIdle
  /\ resp.op = "chat_api" /\ resp.code = 200 /\ resp.response = ModelTurn.text
  /\ resp.chat_id \in Stored
  /\ Len(History(resp.chat_id)) = 2
  /\ History(resp.chat_id)[2] = ModelTurn
  /\ Title(resp.chat_id) = <<"New", " ", "Health", " ", "Query">>

C16_NoPartialModelTurn ==
  [][ /\ \A s \in Slots :
           (Returns(s) /\ resp'.code # 200)
           => LET id == reqs[s].chat_id
              IN  /\ id \in DOMAIN chat_sessions'
                  /\ \A i \in DOMAIN HistoryAfter(id) :
                       i > reqs[s].k => HistoryAfter(id)[i].role = "user"
      /\ \A r \in DOMAIN heap \cap DOMAIN heap' :
           (Len(heap'[r]) > Len(heap[r]) /\ heap'[r][Len(heap'[r])].role # "user")
           => \E s \in Slots :
                /\ reqs[s].pc = "completion" /\ reqs[s].history = r
                /\ Len(heap'[r]) = Len(heap[r]) + 1
                /\ Len(heap[r]) = reqs[s].k + 1
                /\ heap[r][Len(heap[r])].role = "user" ]_vars

\* A submit on a record of two turns was answered with the completion-failure
\* error after its reply had been appended: the reply is gone, the user turn stays.
C16_Witness ==
  /\ AllIdle
  /\ resp.op = "chat_api" /\ resp.code = 500
  /\ resp.error = "Failed to communicate with the AI model. Please try again."
  /\ \E id \in Stored :
       /\ Len(History(id)) = 3
       /\ History(id)[2] = ModelTurn
       /\ History(id)[3].role = "user"
       /\ chat_timestamps[id] = now /\ now > 1

\* C17: with requests executed one at a time, the messages map, the titles map and
\* the timestamps map have the same set of chat ids (each id once), so every
\* stored chat is in the source of the listing and every listed id is stored.
C17_KeySetConsistency ==
  /\ DOMAIN chat_sessions = TKeys(chat_titles)
  /\ DOMAIN chat_sessions = DOMAIN chat_timestamps
  /\ Cardinality(TKeys(chat_titles)) = Len(chat_titles)
  /\ ListingIds \subseteq DOMAIN chat_sessions
  /\ Cardinality(DOMAIN chat_sessions) <= 10 => ListingIds = DOMAIN chat_sessions

\* new_chat has just created a chat beside a chat that a submit saved with its
\* turns and a derived title.
C17_Witness ==
  /\ AllIdle
  /\ resp.op = "new_chat"
  /\ Cardinality(Stored) = 2
  /\ \E id \in Stored : Len(History(id)) >= 2 /\ Title(id) = <<"Flu">>

\* C18: a delete is not undone by a submit in flight: when the chat of a chat_api
\* request that is waiting on a service call is no longer in the messages map (it
\* was deleted meanwhile), the request's next step, whether it succeeds or fails,
\* leaves the id absent from the three maps and from the listing.
C18_DeleteNotUndone ==
  [][ \A s \in Slots :
        (reqs[s].pc # "idle" /\ reqs'[s] # reqs[s]
           /\ reqs[s].chat_id \notin DOMAIN chat_sessions)
        => /\ reqs[s].chat_id \notin DOMAIN chat_sessions'
           /\ reqs[s].chat_id \notin TKeys(chat_titles')
           /\ reqs[s].chat_id \notin DOMAIN chat_timestamps'
           /\ reqs[s].chat_id \notin ListingIdsAfter ]_vars

\* C19: when chat_api requests on the same chat overlap and one fails in its
\* completion call (nothing was appended for it after its user turn, and the
\* rollback shortens the list by one) while the other got no reply or a well-formed
\* one, the turn the rollback removes is that
\* request's user turn: never a model turn, which only another request can have
\* appended.
C19_RollbackRemovesOwnTurn ==
  [][ \A s \in Slots :
        LET r == reqs[s].history
        IN  (reqs[s].pc = "completion" /\ Returns(s)
               /\ resp'.op = "chat_api" /\ resp'.code = 500
               /\ r \in DOMAIN heap'
               /\ Len(heap'[r]) = Len(heap[r]) - 1
               /\ \A o \in Slots \ {s} : reqs[o].response \in { "none", "ok" })
            => /\ heap[r][Len(heap[r])].role = "user"
               /\ \A i \in DOMAIN heap'[r] :
                    heap'[r][i].role = "model" => heap'[r][i - 1].role = "user"
    ]_vars
====
